---- MODULE Spec2Model ----
(***************************************************************************)
(* Model of df.py (Gramine Shielded Containers build helper):              *)
(*   - extract_binary_info_from_image_config   (SpecBinary)                *)
(*   - extract_environment_from_image_config   (SpecEnv)                   *)
(*   - merge_manifests_in_order                (SpecMerge)                 *)
(* Python strings are sequences of one-character strings, Python lists are *)
(* sequences, Python objects that are shared by reference (the Entrypoint  *)
(* list of the image configuration, the dicts and lists of a manifest)     *)
(* live in variables that the operations update in place.                  *)
(***************************************************************************)
EXTENDS Integers, Sequences, FiniteSets, TLC

VARIABLES
    config,        \* the image configuration dict handed to the extractors
    globals,       \* env.globals of the jinja2 environment
    exit_code,     \* 0 while the process runs, the sys.exit status after it
    calls,         \* number of extract_binary_info_from_image_config calls
    called_with,   \* config as it was when the latest call started
    config0,       \* config as it was fetched from the image
    env_list,      \* config['Env'] or [] inside the environment extractor
    env_i,         \* position of the for loop over env_list
    base_image_environment,  \* the accumulated text
    env_pc,        \* "idle" | "loop" | "returned"
    heap,          \* the dict and list objects of the manifests, by address
    heap0,         \* heap as the manifests were parsed
    heap_before,   \* heap when the latest merge started
    merged         \* the secondaries merged into the primary, in order

binVars   == <<config, globals, exit_code, calls, called_with, config0>>
envVars   == <<env_list, env_i, base_image_environment, env_pc>>
mergeVars == <<heap, heap0, heap_before, merged>>
vars      == <<binVars, envVars, mergeVars>>

-----------------------------------------------------------------------------
(* Bounds *)
MaxEntrypoint == 2      \* longest Entrypoint list of an image configuration
MaxCmd == 2             \* longest Cmd list of an image configuration
MaxCalls == 2           \* calls of the extractor on one configuration
MaxEnv == 3             \* longest Env list of an image configuration
MaxMerges == 2          \* merges into the primary manifest

-----------------------------------------------------------------------------
(* Python values *)

\* A value that is None or a list / a string
None == [isNone |-> TRUE, val |-> <<>>]
Some(v) == [isNone |-> FALSE, val |-> v]

\* `x or default`: None, [] and '' are falsy
Or(x, default) == IF x.isNone \/ x.val = <<>> THEN default ELSE x.val

\* what extract_binary_info publishes for binary_arguments and cmd:
\* a list, or the empty string ''
PyList(items) == [isStr |-> FALSE, items |-> items]
PyEmptyStr == [isStr |-> TRUE, items |-> <<>>]

\* binary.startswith('/')
StartsWithSlash(s) == Len(s) > 0 /\ s[1] = "/"

\* '/' in binary
ContainsSlash(s) == \E i \in 1..Len(s) : s[i] = "/"

\* seq[from:] with a 0-based Python index, seq[from:to]
SliceFrom(seq, from) == SubSeq(seq, from + 1, Len(seq))
Slice(seq, from, to) ==
    SubSeq(seq, from + 1, IF to < Len(seq) THEN to ELSE Len(seq))

\* os.path.basename: what follows the last '/'
RECURSIVE Basename(_)
Basename(s) ==
    IF ~ContainsSlash(s) THEN s ELSE Basename(Tail(s))

-----------------------------------------------------------------------------
(* extract_binary_info_from_image_config, df.py 71-114 *)

\* a bug that would leave a configured working directory as it is
CanonWorkingDir_AsConfigured(working_dir) ==
    IF working_dir = <<>> THEN <<"/">> ELSE working_dir

\* lines 77-81
CanonWorkingDir(working_dir) ==
    IF working_dir = <<>> THEN <<"/">>
    ELSE IF working_dir[Len(working_dir)] # "/" THEN working_dir \o <<"/">>
    ELSE working_dir

\* lines 92-94
Binary(entrypoint, working_dir) ==
    LET binary == entrypoint[1]
    IN  IF ~StartsWithSlash(binary) /\ ContainsSlash(binary)
        THEN working_dir \o binary
        ELSE binary

\* lines 97-102: last_bin_arg
LastBinArg(num_starting_entrypoint_items) ==
    IF num_starting_entrypoint_items > 1
    THEN num_starting_entrypoint_items
    ELSE 0

\* lines 97-102: binary_arguments
BinaryArguments(entrypoint, num_starting_entrypoint_items) ==
    IF num_starting_entrypoint_items > 1
    THEN PyList(Slice(entrypoint, 1, LastBinArg(num_starting_entrypoint_items)))
    ELSE PyEmptyStr

\* a bug that would start the remainder at last_bin_arg itself
CmdRemainder_FromLastBinArg(entrypoint, last_bin_arg) ==
    IF Len(entrypoint) > last_bin_arg
    THEN PyList(SliceFrom(entrypoint, last_bin_arg))
    ELSE PyEmptyStr

\* line 106
CmdRemainder(entrypoint, last_bin_arg) ==
    IF Len(entrypoint) > last_bin_arg + 1
    THEN PyList(SliceFrom(entrypoint, last_bin_arg + 1))
    ELSE PyEmptyStr

\* line 72 binds entrypoint to the configuration's own list when that list
\* is non-empty (`x or []` returns x itself), and to a fresh list otherwise
EntrypointIsAliased(cfg) == ~cfg.Entrypoint.isNone /\ cfg.Entrypoint.val # <<>>

\* a bug that would extend in the wrong order
ExtendedEntrypoint_CmdFirst(cfg) == Or(cfg.Cmd, <<>>) \o Or(cfg.Entrypoint, <<>>)

\* line 85: entrypoint.extend(cmd)
ExtendedEntrypoint(cfg) == Or(cfg.Entrypoint, <<>>) \o Or(cfg.Cmd, <<>>)

NoGlobals ==
    [published |-> FALSE, binary |-> <<>>, binary_arguments |-> PyEmptyStr,
     binary_basename |-> <<>>, cmd |-> PyEmptyStr, working_dir |-> <<>>]

ExtractBinaryInfo ==
    /\ exit_code = 0
    /\ calls < MaxCalls
    /\ LET num_starting_entrypoint_items == Len(Or(config.Entrypoint, <<>>))
           working_dir == CanonWorkingDir(Or(config.WorkingDir, <<>>))
           entrypoint == ExtendedEntrypoint(config)
           last_bin_arg == LastBinArg(num_starting_entrypoint_items)
       IN  /\ called_with' = config
           /\ calls' = calls + 1
           /\ config' = IF EntrypointIsAliased(config)
                        THEN [config EXCEPT !.Entrypoint = Some(entrypoint)]
                        ELSE config
           /\ IF entrypoint = <<>>
              THEN /\ exit_code' = 1
                   /\ UNCHANGED globals
              ELSE /\ UNCHANGED exit_code
                   /\ globals' =
                        [published |-> TRUE,
                         binary |-> Binary(entrypoint, working_dir),
                         binary_arguments |->
                             BinaryArguments(entrypoint, num_starting_entrypoint_items),
                         binary_basename |->
                             Basename(Binary(entrypoint, working_dir)),
                         cmd |-> CmdRemainder(entrypoint, last_bin_arg),
                         working_dir |-> working_dir]
    /\ UNCHANGED <<config0, envVars, mergeVars>>

\* strings an Entrypoint or Cmd element is drawn from:
\* '', 'a', '/a', './a'
Words == {<<>>, <<"a">>, <<"/", "a">>, <<".", "/", "a">>}

\* WorkingDir values: '', '/', '/w', '/w/'
WorkingDirs == {<<>>, <<"/">>, <<"/", "w">>, <<"/", "w", "/">>}

RECURSIVE ListsUpTo(_, _)
ListsUpTo(S, n) ==
    IF n = 0 THEN {<<>>}
    ELSE LET shorter == ListsUpTo(S, n - 1)
         IN  shorter \cup {Append(l, x) : l \in shorter, x \in S}

Configs ==
    [Entrypoint : {None} \cup {Some(l) : l \in ListsUpTo(Words, MaxEntrypoint)},
     Cmd        : {None} \cup {Some(l) : l \in ListsUpTo(Words, MaxCmd)},
     WorkingDir : {None} \cup {Some(w) : w \in WorkingDirs},
     Env        : {None}]

InitBinVars(cfgs) ==
    /\ config \in cfgs
    /\ config0 = config
    /\ called_with = config
    /\ globals = NoGlobals
    /\ exit_code = 0
    /\ calls = 0

InitEnvIdle ==
    /\ env_list = <<>>
    /\ env_i = 0
    /\ base_image_environment = <<>>
    /\ env_pc = "idle"

InitMergeIdle ==
    /\ heap = <<>>
    /\ heap0 = <<>>
    /\ heap_before = <<>>
    /\ merged = <<>>

InitBinary == InitBinVars(Configs) /\ InitEnvIdle /\ InitMergeIdle
NextBinary == ExtractBinaryInfo
SpecBinary == InitBinary /\ [][NextBinary]_vars

-----------------------------------------------------------------------------
(* Properties of extract_binary_info_from_image_config *)

\* Entrypoint and Cmd of the configuration as the latest call received it
CallEntrypoint == Or(called_with.Entrypoint, <<>>)
CallCmd == Or(called_with.Cmd, <<>>)
CallAll == CallEntrypoint \o CallCmd
Relative(s) == (Len(s) = 0 \/ s[1] # "/") /\ (\E i \in 1..Len(s) : s[i] = "/")

\* C1: when the entrypoint has more than one element, binary_arguments is
\* entrypoint[1:] and the published cmd is exactly cmd, so that
\* [entrypoint[0]] ++ binary_arguments ++ cmd remainder = entrypoint ++ cmd.
C1_NoCmdElementDropped ==
    (globals.published /\ Len(CallEntrypoint) > 1) =>
        /\ globals.binary_arguments.items = Tail(CallEntrypoint)
        /\ globals.cmd.items = CallCmd
        /\ <<CallEntrypoint[1]>> \o globals.binary_arguments.items
              \o globals.cmd.items = CallAll

\* C2 as stated: with no entrypoint and a non-empty cmd, binary is cmd[0]
\* whatever its form, binary_arguments is empty, the remainder is cmd[1:].
C2_BinaryIsCmd0 ==
    (globals.published /\ CallEntrypoint = <<>> /\ CallCmd # <<>>) =>
        /\ globals.binary = CallCmd[1]
        /\ globals.binary_arguments.items = <<>>
        /\ globals.cmd.items = Tail(CallCmd)

\* C2 amended: with no entrypoint and a non-empty cmd, binary is cmd[0],
\* prefixed with the published working_dir when cmd[0] is not absolute and
\* contains a '/'; binary_arguments is empty and the remainder is cmd[1:].
C2_BinaryIsResolvedCmd0 ==
    (globals.published /\ CallEntrypoint = <<>> /\ CallCmd # <<>>) =>
        /\ globals.binary = IF Relative(CallCmd[1])
                            THEN globals.working_dir \o CallCmd[1]
                            ELSE CallCmd[1]
        /\ globals.binary_arguments.items = <<>>
        /\ globals.cmd.items = Tail(CallCmd)

C2_Witness ==
    /\ globals.published
    /\ CallEntrypoint = <<>>
    /\ Len(CallCmd) > 1
    /\ Relative(CallCmd[1])
    /\ globals.cmd.items # <<>>

\* C3: the derivation never mutates the image configuration: Entrypoint and
\* Cmd hold what they held when the configuration was fetched.
C3_ConfigNeverMutated ==
    /\ Or(config.Entrypoint, <<>>) = Or(config0.Entrypoint, <<>>)
    /\ Or(config.Cmd, <<>>) = Or(config0.Cmd, <<>>)

C9_RelativeBinaryIsPrefixed ==
    globals.published =>
        LET first == CallAll[1]
            configured == Or(called_with.WorkingDir, <<>>)
            wd == globals.working_dir
        IN  /\ wd # <<>> /\ wd[Len(wd)] = "/"
            /\ configured = <<>> => wd = <<"/">>
            /\ (configured # <<>> /\ configured[Len(configured)] = "/")
                  => wd = configured
            /\ (configured # <<>> /\ configured[Len(configured)] # "/")
                  => wd = configured \o <<"/">>
            /\ Relative(first) => globals.binary = wd \o first
            /\ ~Relative(first) => globals.binary = first

C9_Witness ==
    /\ globals.published
    /\ Relative(CallAll[1])
    /\ Or(called_with.WorkingDir, <<>>) = <<"/", "w">>
    /\ globals.binary = <<"/", "w", "/", ".", "/", "a">>

-----------------------------------------------------------------------------
(* extract_environment_from_image_config, df.py 117-132 *)

\* '\n' in env_var
ContainsNewline(s) == \E i \in 1..Len(s) : s[i] = "\n"

\* line 128: env_var.translate({'\\': r'\\', '"': r'\"'})
RECURSIVE Translate(_)
Translate(s) ==
    IF s = <<>> THEN <<>>
    ELSE (IF Head(s) = "\\" THEN <<"\\", "\\">>
          ELSE IF Head(s) = "\"" THEN <<"\\", "\"">>
          ELSE <<Head(s)>>) \o Translate(Tail(s))

\* s.split('=', maxsplit=1): a list of one element when s holds no '=',
\* otherwise what precedes the first '=' and what follows it
SplitOnce(s) ==
    IF \A i \in 1..Len(s) : s[i] # "="
    THEN <<s>>
    ELSE LET at == CHOOSE i \in 1..Len(s) :
                       s[i] = "=" /\ \A j \in 1..(i - 1) : s[j] # "="
         IN  <<SubSeq(s, 1, at - 1), SubSeq(s, at + 1, Len(s))>>

\* line 131: f'loader.env.{env_var_name} = "{env_var_value}"\n'
LoaderEnvLine(env_var_name, env_var_value) ==
    <<"l", "o", "a", "d", "e", "r", ".", "e", "n", "v", ".">>
        \o env_var_name \o <<" ", "=", " ", "\"">> \o env_var_value
        \o <<"\"", "\n">>

\* a bug that would leave the loop at an entry with a line break
AfterSkipped_Break(i, n) == n

\* line 127: `continue` goes on with the next entry
AfterSkipped(i, n) == i + 1

\* lines 118-119
EnvStart ==
    /\ env_pc = "idle"
    /\ env_list' = Or(config.Env, <<>>)
    /\ env_i' = 0
    /\ base_image_environment' = <<>>
    /\ env_pc' = "loop"
    /\ UNCHANGED <<binVars, mergeVars>>

\* lines 120-127: an entry with a line break is skipped
EnvSkip ==
    /\ env_pc = "loop"
    /\ env_i < Len(env_list)
    /\ ContainsNewline(env_list[env_i + 1])
    /\ env_i' = AfterSkipped(env_i, Len(env_list))
    /\ UNCHANGED <<env_list, base_image_environment, env_pc, binVars, mergeVars>>

\* lines 120-131: an entry without line break adds its line (the Env
\* entries of an image configuration all are KEY=VALUE, so that the split
\* of line 130 has its second element)
EnvEmit ==
    /\ env_pc = "loop"
    /\ env_i < Len(env_list)
    /\ ~ContainsNewline(env_list[env_i + 1])
    /\ LET escaped_env_var == Translate(env_list[env_i + 1])
           env_var_name == SplitOnce(escaped_env_var)[1]
           env_var_value == SplitOnce(escaped_env_var)[2]
       IN  base_image_environment' =
               base_image_environment \o LoaderEnvLine(env_var_name, env_var_value)
    /\ env_i' = env_i + 1
    /\ UNCHANGED <<env_list, env_pc, binVars, mergeVars>>

\* line 132
EnvReturn ==
    /\ env_pc = "loop"
    /\ env_i >= Len(env_list)
    /\ env_pc' = "returned"
    /\ UNCHANGED <<env_list, env_i, base_image_environment, binVars, mergeVars>>

\* Env entries are KEY=VALUE strings; the values hold the characters that
\* matter: a line break, a quote, a backslash, an '='
EnvKeys == {<<"K">>, <<"L">>}
EnvValues == {<<"v">>, <<"a", "\n", "b">>, <<"\"", "\\">>, <<"=">>}
EnvEntries == {k \o <<"=">> \o v : k \in EnvKeys, v \in EnvValues}

EnvConfigs ==
    [Entrypoint : {None}, Cmd : {None}, WorkingDir : {None},
     Env : {None} \cup {Some(l) : l \in ListsUpTo(EnvEntries, MaxEnv)}]

InitEnv == InitBinVars(EnvConfigs) /\ InitEnvIdle /\ InitMergeIdle
NextEnv == EnvStart \/ EnvSkip \/ EnvEmit \/ EnvReturn
SpecEnv == InitEnv /\ [][NextEnv]_vars

-----------------------------------------------------------------------------
(* Properties of extract_environment_from_image_config *)

\* the text cut into its lines, each without its closing line break
RECURSIVE LinesOf(_)
LinesOf(text) ==
    IF text = <<>> THEN <<>>
    ELSE IF \A i \in 1..Len(text) : text[i] # "\n" THEN <<text>>
    ELSE LET at == CHOOSE i \in 1..Len(text) :
                       text[i] = "\n" /\ \A j \in 1..(i - 1) : text[j] # "\n"
         IN  <<SubSeq(text, 1, at - 1)>> \o LinesOf(SubSeq(text, at + 1, Len(text)))

\* what a TOML basic string stands for: \x reads as x
RECURSIVE TomlUnescape(_)
TomlUnescape(s) ==
    IF s = <<>> THEN <<>>
    ELSE IF Head(s) = "\\" /\ Len(s) > 1
         THEN <<s[2]>> \o TomlUnescape(SubSeq(s, 3, Len(s)))
         ELSE <<Head(s)>> \o TomlUnescape(Tail(s))

\* the line `loader.env.KEY = "..."` of an entry KEY=VALUE, read back
LineIsFor(line, entry) ==
    LET key == SplitOnce(entry)[1]
        value == SplitOnce(entry)[2]
        prefix == <<"l", "o", "a", "d", "e", "r", ".", "e", "n", "v", ".">>
                      \o key \o <<" ", "=", " ", "\"">>
    IN  /\ Len(line) > Len(prefix)
        /\ SubSeq(line, 1, Len(prefix)) = prefix
        /\ line[Len(line)] = "\""
        /\ TomlUnescape(SubSeq(line, Len(prefix) + 1, Len(line) - 1)) = value

ValueHasNewline(entry) == ContainsNewline(SplitOnce(entry)[2])

\* the entries handled so far
Handled == SubSeq(Or(config.Env, <<>>), 1, env_i)

\* C10: the text holds exactly one loader.env line for every KEY=VALUE entry
\* handled so far whose value has no line break, in the order of the
\* entries and with duplicate keys kept; an entry with a line break adds no
\* line and leaves the lines of the entries around it as they are; and the
\* function returns only when every entry has been handled.
KeepsValue(e) == ~ValueHasNewline(e)
C10_OneLinePerEntryInOrder ==
    env_pc \in {"loop", "returned"} =>
        LET kept == SelectSeq(Handled, KeepsValue)
            lines == LinesOf(base_image_environment)
        IN  /\ Len(lines) = Len(kept)
            /\ \A j \in 1..Len(kept) : LineIsFor(lines[j], kept[j])
            /\ env_pc = "returned" => env_i = Len(Or(config.Env, <<>>))

C10_Witness ==
    /\ env_pc = "returned"
    /\ Len(env_list) = 3
    /\ ValueHasNewline(env_list[2])
    /\ ~ValueHasNewline(env_list[1]) /\ ~ValueHasNewline(env_list[3])
    /\ SplitOnce(env_list[1])[1] = SplitOnce(env_list[3])[1]
    /\ Len(LinesOf(base_image_environment)) = 2

-----------------------------------------------------------------------------
(* merge_manifests_in_order, df.py 166-190 *)

\* A manifest is a tree of Python objects. Dicts and lists are objects of
\* the heap, named by an address and held by reference; scalars are strings
\* held by value. heap[a] is the object at address a.
Scalar(s) == [tag |-> "scalar", str |-> s, addr |-> <<>>]
Ref(a) == [tag |-> "ref", str |-> <<>>, addr |-> a]
DictObject(map) == [kind |-> "dict", map |-> map, items |-> <<>>]
ListObject(items) == [kind |-> "list", map |-> <<>>, items |-> items]

\* isinstance(value, dict), isinstance(value, list)
IsDict(h, v) == v.tag = "ref" /\ h[v.addr].kind = "dict"
IsList(h, v) == v.tag = "ref" /\ h[v.addr].kind = "list"

\* the keys the code names
K_loader == <<"l", "o", "a", "d", "e", "r">>
K_env == <<"e", "n", "v">>
K_loader_env == <<"l", "o", "a", "d", "e", "r", ".", "e", "n", "v">>
K_PATH == <<"P", "A", "T", "H">>
K_LD_LIBRARY_PATH ==
    <<"L", "D", "_", "L", "I", "B", "R", "A", "R", "Y", "_", "P", "A", "T", "H">>
K_LD_PRELOAD == <<"L", "D", "_", "P", "R", "E", "L", "O", "A", "D">>

\* line 181
ConcatenatedKeys == {K_LD_LIBRARY_PATH, K_PATH, K_LD_PRELOAD}

\* '.'.join(path)
RECURSIVE DotJoin(_)
DotJoin(path) ==
    IF path = <<>> THEN <<>>
    ELSE IF Len(path) = 1 THEN path[1]
    ELSE path[1] \o <<".">> \o DotJoin(Tail(path))

\* the value of a manifest entry with everything it refers to: what two
\* Python values are compared by with ==, and what a manifest holds
RECURSIVE Content(_, _)
Content(h, v) ==
    IF v.tag = "scalar"
    THEN [kind |-> "scalar", str |-> v.str, map |-> <<>>, items |-> <<>>]
    ELSE LET obj == h[v.addr]
         IN  IF obj.kind = "list"
             THEN [kind |-> "list", str |-> <<>>, map |-> <<>>, items |-> obj.items]
             ELSE [kind |-> "dict", str |-> <<>>,
                   map |-> [k \in DOMAIN obj.map |-> Content(h, obj.map[k])],
                   items |-> <<>>]

\* repr() of a string, of a list of strings, of a dict
Quoted(str) == <<"'">> \o str \o <<"'">>

RECURSIVE ReprItems(_)
ReprItems(items) ==
    IF items = <<>> THEN <<>>
    ELSE IF Len(items) = 1 THEN Quoted(items[1])
    ELSE Quoted(items[1]) \o <<",", " ">> \o ReprItems(Tail(items))

RECURSIVE PyRepr(_, _)
RECURSIVE ReprEntries(_, _, _)
ReprEntries(h, map, keys) ==
    IF keys = {} THEN <<>>
    ELSE LET k == CHOOSE x \in keys : TRUE
             entry == Quoted(k) \o <<":", " ">> \o PyRepr(h, map[k])
         IN  IF keys = {k} THEN entry
             ELSE entry \o <<",", " ">> \o ReprEntries(h, map, keys \ {k})

PyRepr(h, v) ==
    IF v.tag = "scalar" THEN Quoted(v.str)
    ELSE IF h[v.addr].kind = "list"
         THEN <<"[">> \o ReprItems(h[v.addr].items) \o <<"]">>
         ELSE <<"{">> \o ReprEntries(h, h[v.addr].map, DOMAIN h[v.addr].map)
                  \o <<"}">>

\* f'{value}': a string as it is, a list or dict by its repr
Format(h, v) == IF v.tag = "scalar" THEN v.str ELSE PyRepr(h, v)

\* lines 180-181
IsConcatenated(path, key) ==
    /\ DotJoin(path) = K_loader_env
    /\ key \in ConcatenatedKeys

\* a bug that would let the second manifest win
ResolveConflict_SecondWins(h, a1, a2, path, key) ==
    [h EXCEPT ![a1].map[key] = h[a2].map[key]]

\* lines 176-187: manifest1[key] != manifest2[key]; the warnings are printed
\* and change nothing
ResolveConflict(h, a1, a2, path, key) ==
    IF IsConcatenated(path, key)
    THEN [h EXCEPT ![a1].map[key] =
              Scalar(Format(h, h[a1].map[key]) \o <<":">>
                         \o Format(h, h[a2].map[key]))]
    ELSE h

\* a bug that would leave out the keys the first manifest lacks
AbsentKey_Dropped(h, a1, a2, key) == h

\* lines 188-189: manifest1[key] = manifest2[key] stores the value itself,
\* for a dict or list the reference to the second manifest's object
AbsentKey(h, a1, a2, key) ==
    LET map1 == h[a1].map
    IN  [h EXCEPT ![a1].map =
             [k \in (DOMAIN map1) \cup {key} |->
                  IF k = key THEN h[a2].map[key] ELSE map1[k]]]

\* line 173: manifest1[key].extend(manifest2[key])
ExtendList(h, l1, l2) == [h EXCEPT ![l1].items = h[l1].items \o h[l2].items]

\* lines 166-190, manifest1 and manifest2 given by their addresses. The
\* loop takes the keys of manifest2 one by one; a key touches nothing but
\* the entry of that key, so that the order of the keys does not matter.
RECURSIVE MergeManifestsInOrder(_, _, _, _)
RECURSIVE MergeKeys(_, _, _, _, _)
MergeKey(h, a1, a2, path, key) ==
    LET v1 == h[a1].map[key]
        v2 == h[a2].map[key]
    IN  IF key \in DOMAIN h[a1].map
        THEN IF IsDict(h, v1) /\ IsDict(h, v2)
             THEN MergeManifestsInOrder(h, v1.addr, v2.addr, Append(path, key))
             ELSE IF IsList(h, v1) /\ IsList(h, v2)
             THEN ExtendList(h, v1.addr, v2.addr)
             ELSE IF Content(h, v1) = Content(h, v2)
             THEN h
             ELSE ResolveConflict(h, a1, a2, path, key)
        ELSE AbsentKey(h, a1, a2, key)

MergeKeys(h, a1, a2, path, keys) ==
    IF keys = {} THEN h
    ELSE LET key == CHOOSE k \in keys : TRUE
         IN  MergeKeys(MergeKey(h, a1, a2, path, key), a1, a2, path,
                       keys \ {key})

MergeManifestsInOrder(h, a1, a2, path) ==
    MergeKeys(h, a1, a2, path, DOMAIN h[a2].map)

\* The manifests: 1 is the primary one, every merge goes into it and
\* returns it; 2 and 3 are merged into it as secondaries.
Primary == 1
Secondaries == {2, 3}
Root(m) == <<m, <<>>>>

Merge(s) ==
    /\ Len(merged) < MaxMerges
    /\ heap_before' = heap
    /\ heap' = MergeManifestsInOrder(heap, Root(Primary), Root(s), <<>>)
    /\ merged' = Append(merged, s)
    /\ UNCHANGED <<heap0, binVars, envVars>>

MergeSecondary == \E s \in Secondaries : Merge(s)

\* Manifests as they are parsed: trees, no object shared
TreeScalar(str) == [kind |-> "scalar", str |-> str, map |-> <<>>, items |-> <<>>]
TreeList(items) == [kind |-> "list", str |-> <<>>, map |-> <<>>, items |-> items]
TreeDict(map) == [kind |-> "dict", str |-> <<>>, map |-> map, items |-> <<>>]

K_x == <<"x">>
K_sibling == <<"s">>

\* the tree holding `leaf` at `path`, and next to it the entries of `beside`
RECURSIVE Nest(_, _, _)
Nest(path, leaf, beside) ==
    IF Len(path) = 1
    THEN TreeDict([k \in {path[1]} \cup DOMAIN beside |->
                       IF k = path[1] THEN leaf ELSE beside[k]])
    ELSE TreeDict([k \in {path[1]} |-> Nest(Tail(path), leaf, beside)])

LeafPaths ==
    { <<K_PATH>>, <<K_loader>>, <<K_loader, K_PATH>>,
      <<K_loader, K_env, K_PATH>>, <<K_loader, K_env, K_x>>,
      <<K_loader_env, K_PATH>> }

Leaves == { TreeScalar(<<"/", "x">>), TreeScalar(<<"/", "y">>),
            TreeList(<<<<"1">>>>) }

NoSibling == <<>>
Sibling == [k \in {K_sibling} |-> TreeScalar(<<"/", "x">>)]

Manifests ==
    {TreeDict(<<>>)}
        \cup {Nest(p, l, b) : p \in LeafPaths, l \in Leaves, b \in {NoSibling, Sibling}}

\* the node of a tree at a path, the paths of its dicts and lists
RECURSIVE Node(_, _)
Node(tree, path) ==
    IF path = <<>> THEN tree ELSE Node(tree.map[Head(path)], Tail(path))

RECURSIVE ObjectPaths(_)
ObjectPaths(tree) ==
    IF tree.kind = "scalar" THEN {}
    ELSE IF tree.kind = "list" THEN {<<>>}
    ELSE {<<>>} \cup UNION { {<<k>> \o p : p \in ObjectPaths(tree.map[k])} :
                              k \in DOMAIN tree.map }

\* the heap after parsing the manifests: the object of manifest m at path p
\* has the address <<m, p>>
Parsed(trees) ==
    LET addrs == UNION { {<<m, p>> : p \in ObjectPaths(trees[m])} :
                         m \in DOMAIN trees }
        value(m, p, child) ==
            IF child.kind = "scalar" THEN Scalar(child.str) ELSE Ref(<<m, p>>)
        object(m, p) ==
            LET node == Node(trees[m], p)
            IN  IF node.kind = "list" THEN ListObject(node.items)
                ELSE DictObject([k \in DOMAIN node.map |->
                                     value(m, Append(p, k), node.map[k])])
    IN  [a \in addrs |-> object(a[1], a[2])]

IdleConfigs == [Entrypoint : {None}, Cmd : {None}, WorkingDir : {None}, Env : {None}]

InitMerge ==
    /\ InitBinVars(IdleConfigs)
    /\ InitEnvIdle
    /\ heap \in {Parsed(<<t1, t2, t3>>) :
                     t1 \in Manifests, t2 \in Manifests, t3 \in Manifests}
    /\ heap0 = heap
    /\ heap_before = heap
    /\ merged = <<>>
NextMerge == MergeSecondary
SpecMerge == InitMerge /\ [][NextMerge]_vars

-----------------------------------------------------------------------------
(* Properties of merge_manifests_in_order *)

\* the manifests of the latest merge: primary and secondary as they were
\* when it started, and the merged manifest it returned
LastSecondary == merged[Len(merged)]
PrimaryBefore == Content(heap_before, Ref(Root(Primary)))
SecondaryBefore == Content(heap_before, Ref(Root(LastSecondary)))
Merged == Content(heap, Ref(Root(Primary)))
InBoth(P, S) == (DOMAIN P.map) \cap (DOMAIN S.map)
BothDicts(p, s) == p.kind = "dict" /\ s.kind = "dict"
BothLists(p, s) == p.kind = "list" /\ s.kind = "list"
Joined(p, s) == TreeScalar(p.str \o <<":">> \o s.str)

\* C4: the merged manifest holds no reference into a secondary: whatever is
\* merged into it later, a secondary that was merged once holds what it
\* held when the manifests were parsed.
C4_SecondaryAbsorbedByValue ==
    \A i \in 1..Len(merged) :
        (\A j \in 1..Len(merged) : j # i => merged[j] # merged[i]) =>
            Content(heap, Ref(Root(merged[i])))
                = Content(heap0, Ref(Root(merged[i])))

\* C6: a key of both manifests whose values differ, are not both dicts and
\* not both lists, and that is not LD_LIBRARY_PATH, PATH or LD_PRELOAD at
\* the dotted path loader.env, keeps the primary's value, which is not the
\* secondary's; the merge returns.
RECURSIVE PrimaryWins(_, _, _, _)
PrimaryWins(P, S, R, path) ==
    \A k \in InBoth(P, S) :
        /\ k \in DOMAIN R.map
        /\ IF BothDicts(P.map[k], S.map[k])
           THEN R.map[k].kind = "dict"
                   /\ PrimaryWins(P.map[k], S.map[k], R.map[k], Append(path, k))
           ELSE \/ BothLists(P.map[k], S.map[k])
                \/ P.map[k] = S.map[k]
                \/ /\ path \in {<<K_loader, K_env>>, <<K_loader_env>>}
                   /\ k \in {K_LD_LIBRARY_PATH, K_PATH, K_LD_PRELOAD}
                \/ R.map[k] = P.map[k] /\ R.map[k] # S.map[k]

RECURSIVE ConcatenatedIffLoaderEnv(_, _, _, _)
ConcatenatedIffLoaderEnv(P, S, R, path) ==
    \A k \in InBoth(P, S) :
        /\ k \in DOMAIN R.map
        /\ IF BothDicts(P.map[k], S.map[k])
           THEN R.map[k].kind = "dict"
                   /\ ConcatenatedIffLoaderEnv(P.map[k], S.map[k], R.map[k],
                                               Append(path, k))
           ELSE (/\ P.map[k].kind = "scalar"
                 /\ S.map[k].kind = "scalar"
                 /\ P.map[k] # S.map[k]) =>
                    IF /\ path = <<K_loader, K_env>>
                       /\ k \in {K_LD_LIBRARY_PATH, K_PATH, K_LD_PRELOAD}
                    THEN R.map[k] = Joined(P.map[k], S.map[k])
                    ELSE R.map[k] = P.map[k]

C7_ConcatenatedOnlyUnderLoaderEnv ==
    merged # <<>> =>
        ConcatenatedIffLoaderEnv(PrimaryBefore, SecondaryBefore, Merged, <<>>)

\* C8: at every nesting level the merged manifest has the keys of both
\* manifests, a key of the primary alone keeps its value, a key of the
\* secondary alone takes the secondary's value; merging the empty manifest
\* changes nothing.
RECURSIVE KeywiseUnion(_, _, _)
KeywiseUnion(P, S, R) ==
    /\ R.kind = "dict"
    /\ DOMAIN R.map = (DOMAIN P.map) \cup (DOMAIN S.map)
    /\ \A k \in (DOMAIN P.map) \ (DOMAIN S.map) : R.map[k] = P.map[k]
    /\ \A k \in (DOMAIN S.map) \ (DOMAIN P.map) : R.map[k] = S.map[k]
    /\ \A k \in InBoth(P, S) :
          BothDicts(P.map[k], S.map[k]) =>
              KeywiseUnion(P.map[k], S.map[k], R.map[k])

C8_MergeIsKeywiseUnion ==
    merged # <<>> =>
        /\ KeywiseUnion(PrimaryBefore, SecondaryBefore, Merged)
        /\ SecondaryBefore = TreeDict(<<>>) => Merged = PrimaryBefore

C8_Witness ==
    /\ merged # <<>>
    /\ K_loader \in InBoth(PrimaryBefore, SecondaryBefore)
    /\ BothDicts(PrimaryBefore.map[K_loader], SecondaryBefore.map[K_loader])
    /\ (DOMAIN PrimaryBefore.map[K_loader].map)
           \ (DOMAIN SecondaryBefore.map[K_loader].map) # {}
    /\ (DOMAIN SecondaryBefore.map[K_loader].map)
           \ (DOMAIN PrimaryBefore.map[K_loader].map) # {}
    /\ Cardinality(DOMAIN Merged.map[K_loader].map) > 2

====
